---- MODULE Spec2Model ----
(***************************************************************************)
(* Quota enforcement and LLM usage accounting of the tochenAI backend.     *)
(*                                                                         *)
(* State: the toc_users rows (quota, usage_count, is_superuser) and the    *)
(* llmusage table (the usage ledger).  Operations: check_user_quota,       *)
(* enforce_quota_and_track_usage, the text-generation clients and the      *)
(* /llm/generate-content route, the DALL-E image client and the            *)
(* /llm/generate-image route, the increment-usage routes and the user      *)
(* update routes.  Every request is handled synchronously, so one action   *)
(* is one whole request.                                                   *)
(*                                                                         *)
(* Money is kept in fixed point: one unit is 10^-9 USD, so a price of the  *)
(* table (USD per 1000 tokens) times 10^6 is the price of one token.       *)
(***************************************************************************)
EXTENDS Integers, Sequences, FiniteSets, TLC

\* ------------------------------------------------------------------------
\* Bounds of the model
\* ------------------------------------------------------------------------
MaxQuota == 2
MaxUsage == 2
MaxRecords == 2
MaxCalls == 4

\* ------------------------------------------------------------------------
\* Program constants
\* ------------------------------------------------------------------------
ProviderMaxLen == 32
ModelMaxLen == 64
RequestTypeMaxLen == 64
ErrorMessageMaxLen == 512
DalleCost == 40000000

\* ------------------------------------------------------------------------
\* Identities and strings
\* ------------------------------------------------------------------------
UserIds == {"u1", "u2"}
Ghost == "ghost"
AllIds == UserIds \cup {Ghost}

\* Optional[str]: <<>> is None, <<s>> is the string s.
None == <<>>
Some(s) == <<s>>

RECURSIVE Rep(_, _)
Rep(s, n) ==
    IF n = 0 THEN ""
    ELSE IF n % 2 = 1 THEN s \o Rep(s \o s, n \div 2)
    ELSE Rep(s \o s, n \div 2)

\* A provider error text one character longer than the column allows.
LongMsg == Rep("x", ErrorMessageMaxLen + 1)

\* ------------------------------------------------------------------------
\* Cost Calculator
\* ------------------------------------------------------------------------
LLM_COSTS ==
    [openai |->
        [model \in {"gpt-4", "gpt-3.5-turbo", "gpt-4o"} |->
            CASE model = "gpt-4" -> [input |-> 30000, output |-> 60000]
              [] model = "gpt-3.5-turbo" -> [input |-> 1500, output |-> 2000]
              [] model = "gpt-4o" -> [input |-> 5000, output |-> 15000]],
     anthropic |->
        [model \in {"claude-3-opus", "claude-3-sonnet", "claude-3-haiku"} |->
            CASE model = "claude-3-opus" -> [input |-> 15000, output |-> 75000]
              [] model = "claude-3-sonnet" -> [input |-> 3000, output |-> 15000]
              [] model = "claude-3-haiku" -> [input |-> 250, output |-> 1250]],
     gemini |->
        [model \in {"gemini-1.5-flash", "gemini-1.5-pro", "gemini-1.0-pro"} |->
            CASE model = "gemini-1.5-flash" -> [input |-> 75, output |-> 300]
              [] model = "gemini-1.5-pro" -> [input |-> 3750, output |-> 15000]
              [] model = "gemini-1.0-pro" -> [input |-> 500, output |-> 1500]]]

\* Mutation: a model without a price is charged at a default rate.
calculate_llm_cost_DefaultPrice(provider, model, prompt_tokens, completion_tokens) ==
    IF provider \in DOMAIN LLM_COSTS /\ model \in DOMAIN LLM_COSTS[provider]
    THEN LET costs == LLM_COSTS[provider][model]
         IN  prompt_tokens * costs.input + completion_tokens * costs.output
    ELSE prompt_tokens * 1000 + completion_tokens * 1000

\* Mutation: the input and the output price are exchanged.
calculate_llm_cost_Swapped(provider, model, prompt_tokens, completion_tokens) ==
    IF provider \notin DOMAIN LLM_COSTS THEN 0
    ELSE IF model \notin DOMAIN LLM_COSTS[provider] THEN 0
    ELSE LET costs == LLM_COSTS[provider][model]
         IN  prompt_tokens * costs.output + completion_tokens * costs.input

calculate_llm_cost(provider, model, prompt_tokens, completion_tokens) ==
    IF provider \notin DOMAIN LLM_COSTS THEN 0
    ELSE IF model \notin DOMAIN LLM_COSTS[provider] THEN 0
    ELSE LET costs == LLM_COSTS[provider][model]
         IN  prompt_tokens * costs.input + completion_tokens * costs.output

\* ------------------------------------------------------------------------
\* Quota Gate and the user counter
\* ------------------------------------------------------------------------
\* Mutation: the gate also admits a user who has used the whole quota.
check_user_quota_Lax(U, user_id) ==
    IF user_id \notin DOMAIN U THEN FALSE
    ELSE IF U[user_id].is_superuser THEN TRUE
    ELSE U[user_id].usage_count <= U[user_id].quota

\* Mutation: superusers are held to the quota like everyone else.
check_user_quota_NoExempt(U, user_id) ==
    IF user_id \notin DOMAIN U THEN FALSE
    ELSE U[user_id].usage_count < U[user_id].quota

check_user_quota(U, user_id) ==
    IF user_id \notin DOMAIN U THEN FALSE
    ELSE IF U[user_id].is_superuser THEN TRUE
    ELSE U[user_id].usage_count < U[user_id].quota

\* Mutation: the incremented row is never committed.
increment_user_usage_NoCommit(U, user_id) ==
    IF user_id \notin DOMAIN U THEN [ok |-> FALSE, U |-> U]
    ELSE [ok |-> TRUE, U |-> U]

\* Mutation: the counter is bumped twice.
increment_user_usage_Twice(U, user_id) ==
    IF user_id \notin DOMAIN U THEN [ok |-> FALSE, U |-> U]
    ELSE [ok |-> TRUE,
          U |-> [U EXCEPT ![user_id].usage_count = @ + 2]]

\* Mutation: the counter of every user is incremented.
increment_user_usage_Everyone(U, user_id) ==
    IF user_id \notin DOMAIN U THEN [ok |-> FALSE, U |-> U]
    ELSE [ok |-> TRUE,
          U |-> [u \in DOMAIN U |->
                    [U[u] EXCEPT !.usage_count = @ + 1]]]

\* Mutation: the counter is decremented.
increment_user_usage_Decrement(U, user_id) ==
    IF user_id \notin DOMAIN U THEN [ok |-> FALSE, U |-> U]
    ELSE [ok |-> TRUE,
          U |-> [U EXCEPT ![user_id].usage_count = @ - 1]]

\* Result: ok is the returned boolean, U the table after the commit.
increment_user_usage(U, user_id) ==
    IF user_id \notin DOMAIN U THEN [ok |-> FALSE, U |-> U]
    ELSE [ok |-> TRUE,
          U |-> [U EXCEPT ![user_id].usage_count = @ + 1]]

\* ------------------------------------------------------------------------
\* Usage Ledger
\* ------------------------------------------------------------------------
\* Field validation of LLMUsageCreate (max_length of the string columns).
LLMUsageCreateValid(provider, model, request_type, error_message) ==
    /\ Len(provider) <= ProviderMaxLen
    /\ Len(model) <= ModelMaxLen
    /\ Len(request_type) <= RequestTypeMaxLen
    /\ (error_message # None => Len(error_message[1]) <= ErrorMessageMaxLen)

\* Mutation: the error message is dropped from the record.
LLMUsageCreate_NoMessage(provider, model, prompt_tokens, completion_tokens, total_tokens, cost_usd, request_type, success, error_message) ==
    [provider |-> provider, model |-> model,
     prompt_tokens |-> prompt_tokens,
     completion_tokens |-> completion_tokens,
     total_tokens |-> total_tokens, cost_usd |-> cost_usd,
     request_type |-> request_type, success |-> success,
     error_message |-> None]

\* Mutation: total_tokens is not passed on and keeps its default.
LLMUsageCreate_NoTotal(provider, model, prompt_tokens, completion_tokens, total_tokens, cost_usd, request_type, success, error_message) ==
    [provider |-> provider, model |-> model,
     prompt_tokens |-> prompt_tokens,
     completion_tokens |-> completion_tokens,
     total_tokens |-> 0, cost_usd |-> cost_usd,
     request_type |-> request_type, success |-> success,
     error_message |-> error_message]

LLMUsageCreate(provider, model, prompt_tokens, completion_tokens, total_tokens, cost_usd, request_type, success, error_message) ==
    [provider |-> provider, model |-> model,
     prompt_tokens |-> prompt_tokens,
     completion_tokens |-> completion_tokens,
     total_tokens |-> total_tokens, cost_usd |-> cost_usd,
     request_type |-> request_type, success |-> success,
     error_message |-> error_message]

\* Mutation: the newest row is overwritten instead of a row being added.
create_llm_usage_Overwrite(L, usage_create, user_id) ==
    IF Len(L) = 0 THEN Append(L, [user_id |-> user_id] @@ usage_create)
    ELSE [L EXCEPT ![Len(L)] = [user_id |-> user_id] @@ usage_create]

create_llm_usage(L, usage_create, user_id) ==
    Append(L, [user_id |-> user_id] @@ usage_create)

\* Mutation: the rows are not filtered by their owner.
RecordsOf_AllUsers(L, user_id) == L

RecordsOf(L, user_id) == SelectSeq(L, LAMBDA r : r.user_id = user_id)

\* ------------------------------------------------------------------------
\* Usage Summary Aggregator
\* ------------------------------------------------------------------------
RECURSIVE SeqSum(_)
SeqSum(s) == IF Len(s) = 0 THEN 0 ELSE Head(s) + SeqSum(Tail(s))

\* SQL SUM over a column: NULL (None) when there is no row.
func_sum(column) == IF Len(column) = 0 THEN None ELSE Some(SeqSum(column))

\* Python "v or 0": None and 0 both give 0.
OrZero(v) == IF v = None \/ v = Some(0) THEN 0 ELSE v[1]

\* Mutation: every tag that occurs is counted once.
GroupCount_Distinct(column) ==
    [tag \in {column[i] : i \in DOMAIN column} |-> 1]

\* SELECT tag, COUNT(id) ... GROUP BY tag, as the dictionary built from it.
GroupCount(column) ==
    [tag \in {column[i] : i \in DOMAIN column} |->
        Cardinality({i \in DOMAIN column : column[i] = tag})]

\* Mutation: the prompt tokens are summed instead of the total tokens.
get_user_llm_usage_summary_PromptOnly(L, user_id) ==
    LET rows == RecordsOf(L, user_id)
    IN  [total_requests |-> Len(rows),
         total_tokens |->
             OrZero(func_sum([i \in DOMAIN rows |-> rows[i].prompt_tokens])),
         total_cost_usd |->
             OrZero(func_sum([i \in DOMAIN rows |-> rows[i].cost_usd])),
         requests_by_provider |->
             GroupCount([i \in DOMAIN rows |-> rows[i].provider]),
         requests_by_type |->
             GroupCount([i \in DOMAIN rows |-> rows[i].request_type])]

get_user_llm_usage_summary(L, user_id) ==
    LET rows == RecordsOf(L, user_id)
    IN  [total_requests |-> Len(rows),
         total_tokens |->
             OrZero(func_sum([i \in DOMAIN rows |-> rows[i].total_tokens])),
         total_cost_usd |->
             OrZero(func_sum([i \in DOMAIN rows |-> rows[i].cost_usd])),
         requests_by_provider |->
             GroupCount([i \in DOMAIN rows |-> rows[i].provider]),
         requests_by_type |->
             GroupCount([i \in DOMAIN rows |-> rows[i].request_type])]

\* ------------------------------------------------------------------------
\* Usage Accounting Orchestrator
\* ------------------------------------------------------------------------
\* Mutation: the record is written before the gate is consulted.
enforce_quota_and_track_usage_LogFirst(U, L, user_id, provider, model, request_type, prompt_tokens, completion_tokens, success, error_message) ==
    LET usage_create == LLMUsageCreate(provider, model, prompt_tokens,
                            completion_tokens,
                            prompt_tokens + completion_tokens,
                            calculate_llm_cost(provider, model, prompt_tokens,
                                               completion_tokens),
                            request_type, success, error_message)
        L1 == create_llm_usage(L, usage_create, user_id)
    IN  IF ~LLMUsageCreateValid(provider, model, request_type, error_message)
        THEN [ret |-> "raise", U |-> U, L |-> L]
        ELSE IF ~check_user_quota(U, user_id)
        THEN [ret |-> "false", U |-> U, L |-> L1]
        ELSE [ret |-> "true",
              U |-> IF success THEN increment_user_usage(U, user_id).U ELSE U,
              L |-> L1]

\* Mutation: the counter is incremented whether or not the call succeeded.
enforce_quota_and_track_usage_CountsFailures(U, L, user_id, provider, model, request_type, prompt_tokens, completion_tokens, success, error_message) ==
    IF ~check_user_quota(U, user_id)
    THEN [ret |-> "false", U |-> U, L |-> L]
    ELSE IF ~LLMUsageCreateValid(provider, model, request_type, error_message)
    THEN [ret |-> "raise", U |-> U, L |-> L]
    ELSE LET usage_create == LLMUsageCreate(provider, model, prompt_tokens,
                                 completion_tokens,
                                 prompt_tokens + completion_tokens,
                                 calculate_llm_cost(provider, model,
                                     prompt_tokens, completion_tokens),
                                 request_type, success, error_message)
         IN  [ret |-> "true",
              U |-> increment_user_usage(U, user_id).U,
              L |-> create_llm_usage(L, usage_create, user_id)]

\* Mutation: the counter of a superuser is left alone.
enforce_quota_and_track_usage_SuperExempt(U, L, user_id, provider, model, request_type, prompt_tokens, completion_tokens, success, error_message) ==
    IF ~check_user_quota(U, user_id)
    THEN [ret |-> "false", U |-> U, L |-> L]
    ELSE IF ~LLMUsageCreateValid(provider, model, request_type, error_message)
    THEN [ret |-> "raise", U |-> U, L |-> L]
    ELSE LET total_tokens == prompt_tokens + completion_tokens
             cost_usd == calculate_llm_cost(provider, model, prompt_tokens,
                                            completion_tokens)
             usage_create == LLMUsageCreate(provider, model, prompt_tokens,
                                 completion_tokens, total_tokens, cost_usd,
                                 request_type, success, error_message)
         IN  [ret |-> "true",
              U |-> IF success /\ ~U[user_id].is_superuser
                    THEN increment_user_usage(U, user_id).U ELSE U,
              L |-> create_llm_usage(L, usage_create, user_id)]

\* Result: ret is "true" or "false" (the returned boolean) or "raise" (the
\* record did not validate); U and L are the tables after the call.
enforce_quota_and_track_usage(U, L, user_id, provider, model, request_type, prompt_tokens, completion_tokens, success, error_message) ==
    IF ~check_user_quota(U, user_id)
    THEN [ret |-> "false", U |-> U, L |-> L]
    ELSE IF ~LLMUsageCreateValid(provider, model, request_type, error_message)
    THEN [ret |-> "raise", U |-> U, L |-> L]
    ELSE LET total_tokens == prompt_tokens + completion_tokens
             cost_usd == calculate_llm_cost(provider, model, prompt_tokens,
                                            completion_tokens)
             usage_create == LLMUsageCreate(provider, model, prompt_tokens,
                                 completion_tokens, total_tokens, cost_usd,
                                 request_type, success, error_message)
             L1 == create_llm_usage(L, usage_create, user_id)
             U1 == IF success THEN increment_user_usage(U, user_id).U ELSE U
         IN  [ret |-> "true", U |-> U1, L |-> L1]

\* Mutation: a failed counter update also removes the record just written.
enforce_quota_and_track_usage_db_Rollback(U, L, user_id, provider, model, request_type, prompt_tokens, completion_tokens, success, error_message, fault) ==
    LET r == enforce_quota_and_track_usage(U, L, user_id, provider, model,
                 request_type, prompt_tokens, completion_tokens, success,
                 error_message)
    IN  IF r.ret # "true" THEN r
        ELSE IF fault = "create_llm_usage"
        THEN [ret |-> "error", U |-> U, L |-> L]
        ELSE IF fault = "increment_user_usage" /\ success
        THEN [ret |-> "error", U |-> U, L |-> L]
        ELSE r

\* enforce_quota_and_track_usage over a database whose commit may fail.
\* fault names the crud function whose session.commit() raises in this call
\* ("none": neither).  create_llm_usage and increment_user_usage commit
\* separately and nothing catches the exception, so a failed commit ends the
\* call with ret "error" and leaves whatever was committed before it.
enforce_quota_and_track_usage_db(U, L, user_id, provider, model, request_type, prompt_tokens, completion_tokens, success, error_message, fault) ==
    LET r == enforce_quota_and_track_usage(U, L, user_id, provider, model,
                 request_type, prompt_tokens, completion_tokens, success,
                 error_message)
    IN  IF r.ret # "true" THEN r
        ELSE IF fault = "create_llm_usage"
        THEN [ret |-> "error", U |-> U, L |-> L]
        ELSE IF fault = "increment_user_usage" /\ success
        THEN [ret |-> "error", U |-> U, L |-> r.L]
        ELSE r

\* ------------------------------------------------------------------------
\* Text-generation clients
\* ------------------------------------------------------------------------
\* What the provider does with the one HTTP call of a request:
\*   kind "ok"        a 2xx response holding the generated text,
\*   kind "unusable"  a 2xx response without the text the client indexes,
\*   kind "error"     the call raised (connection error, timeout, 4xx, 5xx);
\* prompt_tokens / completion_tokens are the counts the response reports,
\* chars is len(prompt + content), msg is str(e) of the raised exception.
ProviderOk(pt, ct, chars) ==
    [kind |-> "ok", prompt_tokens |-> pt, completion_tokens |-> ct,
     chars |-> chars, msg |-> ""]
ProviderUnusable(pt, ct) ==
    [kind |-> "unusable", prompt_tokens |-> pt, completion_tokens |-> ct,
     chars |-> 0, msg |-> ""]
ProviderError(msg) ==
    [kind |-> "error", prompt_tokens |-> 0, completion_tokens |-> 0,
     chars |-> 0, msg |-> msg]

\* str(e) of the pydantic error raised by LLMUsageCreate.
ValidationErrorText == "1 validation error for LLMUsageCreate"

\* Result of a client call: the tables afterwards, whether an exception
\* leaves the client (exc is its text), the returned dictionary's numbers,
\* and ext, the number of HTTP calls made to the provider.
ClientRaised(U, L, exc, ext) ==
    [U |-> U, L |-> L, raised |-> TRUE, exc |-> exc,
     tokens_used |-> 0, cost_usd |-> 0, ext |-> ext]
ClientReturned(U, L, tokens_used, cost_usd, ext) ==
    [U |-> U, L |-> L, raised |-> FALSE, exc |-> "",
     tokens_used |-> tokens_used, cost_usd |-> cost_usd, ext |-> ext]

\* Mutation: the provider call is repeated once before the failure is
\* tracked.
track_failed_request_Retry(U, L, user_id, provider, model, exc) ==
    LET t == enforce_quota_and_track_usage(U, L, user_id, provider, model,
                 "content_generation", 0, 0, FALSE, Some(exc))
    IN  ClientRaised(t.U, t.L,
                     IF t.ret = "raise" THEN ValidationErrorText ELSE exc, 2)

\* Mutation: the failed request is tracked without the error text.
track_failed_request_NoText(U, L, user_id, provider, model, exc) ==
    LET t == enforce_quota_and_track_usage(U, L, user_id, provider, model,
                 "content_generation", 0, 0, FALSE, None)
    IN  ClientRaised(t.U, t.L,
                     IF t.ret = "raise" THEN ValidationErrorText ELSE exc, 1)

\* The "except Exception as e" block of the three clients: track the failed
\* request, then re-raise; an exception raised by the tracking replaces e.
track_failed_request(U, L, user_id, provider, model, exc) ==
    LET t == enforce_quota_and_track_usage(U, L, user_id, provider, model,
                 "content_generation", 0, 0, FALSE, Some(exc))
    IN  ClientRaised(t.U, t.L,
                     IF t.ret = "raise" THEN ValidationErrorText ELSE exc, 1)

\* Mutation: the gate is consulted first and a denied user costs no call.
OpenAIClient_generate_content_GateFirst(U, L, user_id, model, out) ==
    IF ~check_user_quota(U, user_id)
    THEN ClientRaised(U, L, "User quota exceeded", 0)
    ELSE IF out.kind = "error"
    THEN track_failed_request(U, L, user_id, "openai", model, out.msg)
    ELSE LET t == enforce_quota_and_track_usage(U, L, user_id, "openai",
                      model, "content_generation", out.prompt_tokens,
                      out.completion_tokens, TRUE, None)
         IN  IF t.ret = "raise"
             THEN track_failed_request(t.U, t.L, user_id, "openai", model,
                                       ValidationErrorText)
             ELSE IF out.kind = "unusable"
             THEN track_failed_request(t.U, t.L, user_id, "openai", model,
                                       "'choices'")
             ELSE ClientReturned(t.U, t.L,
                      out.prompt_tokens + out.completion_tokens,
                      calculate_llm_cost("openai", model, out.prompt_tokens,
                                         out.completion_tokens), 1)

OpenAIClient_generate_content(U, L, user_id, model, out) ==
    IF out.kind = "error"
    THEN track_failed_request(U, L, user_id, "openai", model, out.msg)
    ELSE LET t == enforce_quota_and_track_usage(U, L, user_id, "openai",
                      model, "content_generation", out.prompt_tokens,
                      out.completion_tokens, TRUE, None)
         IN  IF t.ret = "raise"
             THEN track_failed_request(t.U, t.L, user_id, "openai", model,
                                       ValidationErrorText)
             ELSE IF out.kind = "unusable"
             THEN track_failed_request(t.U, t.L, user_id, "openai", model,
                                       "'choices'")
             ELSE ClientReturned(t.U, t.L,
                      out.prompt_tokens + out.completion_tokens,
                      calculate_llm_cost("openai", model, out.prompt_tokens,
                                         out.completion_tokens), 1)

AnthropicClient_generate_content(U, L, user_id, model, out) ==
    IF out.kind = "error"
    THEN track_failed_request(U, L, user_id, "anthropic", model, out.msg)
    ELSE LET t == enforce_quota_and_track_usage(U, L, user_id, "anthropic",
                      model, "content_generation", out.prompt_tokens,
                      out.completion_tokens, TRUE, None)
         IN  IF t.ret = "raise"
             THEN track_failed_request(t.U, t.L, user_id, "anthropic", model,
                                       ValidationErrorText)
             ELSE IF out.kind = "unusable"
             THEN track_failed_request(t.U, t.L, user_id, "anthropic", model,
                                       "'content'")
             ELSE ClientReturned(t.U, t.L,
                      out.prompt_tokens + out.completion_tokens,
                      calculate_llm_cost("anthropic", model,
                          out.prompt_tokens, out.completion_tokens), 1)

\* Gemini reads the text before tracking and estimates the token counts.
GeminiClient_generate_content(U, L, user_id, model, out) ==
    IF out.kind = "error"
    THEN track_failed_request(U, L, user_id, "gemini", model, out.msg)
    ELSE IF out.kind = "unusable"
    THEN track_failed_request(U, L, user_id, "gemini", model, "'candidates'")
    ELSE LET estimated_tokens == out.chars \div 4
             t == enforce_quota_and_track_usage(U, L, user_id, "gemini",
                      model, "content_generation", estimated_tokens \div 2,
                      estimated_tokens \div 2, TRUE, None)
         IN  IF t.ret = "raise"
             THEN track_failed_request(t.U, t.L, user_id, "gemini", model,
                                       ValidationErrorText)
             ELSE ClientReturned(t.U, t.L, estimated_tokens,
                      calculate_llm_cost("gemini", model,
                          estimated_tokens \div 2, estimated_tokens \div 2), 1)

\* ------------------------------------------------------------------------
\* Image-generation client
\* ------------------------------------------------------------------------
\* Mutation: the DALL-E call is made before the user and the quota are
\* looked at.
ImageGenerationClient_generate_image_CallFirst(U, L, user_id, out) ==
    IF out.kind = "error"
    THEN ClientRaised(U, L, "Image generation failed: " \o out.msg, 1)
            @@ [value_error |-> FALSE]
    ELSE IF user_id \notin DOMAIN U
    THEN ClientRaised(U, L, "User not found", 1) @@ [value_error |-> TRUE]
    ELSE IF ~U[user_id].is_superuser
            /\ U[user_id].usage_count >= U[user_id].quota
    THEN ClientRaised(U, L, "User quota exceeded", 1)
            @@ [value_error |-> TRUE]
    ELSE IF out.kind = "unusable"
    THEN ClientRaised(U, L,
             "Image generation failed: list index out of range", 1)
            @@ [value_error |-> FALSE]
    ELSE LET usage_data == LLMUsageCreate("openai", "dall-e-3", 0, 0, 0,
                               DalleCost, "image_generation", TRUE, None)
             L1 == create_llm_usage(L, usage_data, user_id)
             U1 == [U EXCEPT ![user_id].usage_count = @ + 1]
         IN  ClientReturned(U1, L1, 0, DalleCost, 1)
                @@ [value_error |-> FALSE]

\* Result as for the text clients, plus value_error: the exception is a
\* ValueError (raised before the try block).
ImageGenerationClient_generate_image(U, L, user_id, out) ==
    IF user_id \notin DOMAIN U
    THEN ClientRaised(U, L, "User not found", 0) @@ [value_error |-> TRUE]
    ELSE IF ~U[user_id].is_superuser
            /\ U[user_id].usage_count >= U[user_id].quota
    THEN ClientRaised(U, L, "User quota exceeded", 0)
            @@ [value_error |-> TRUE]
    ELSE IF out.kind = "error"
    THEN ClientRaised(U, L, "Image generation failed: " \o out.msg, 1)
            @@ [value_error |-> FALSE]
    ELSE IF out.kind = "unusable"
    THEN ClientRaised(U, L,
             "Image generation failed: list index out of range", 1)
            @@ [value_error |-> FALSE]
    ELSE LET usage_data == LLMUsageCreate("openai", "dall-e-3", 0, 0, 0,
                               DalleCost, "image_generation", TRUE, None)
             L1 == create_llm_usage(L, usage_data, user_id)
             U1 == [U EXCEPT ![user_id].usage_count = @ + 1]
         IN  ClientReturned(U1, L1, 0, DalleCost, 1)
                @@ [value_error |-> FALSE]

\* ------------------------------------------------------------------------
\* State
\* ------------------------------------------------------------------------
VARIABLES
    users,      \* toc_users: id -> [is_superuser, quota, usage_count]
    ledger,     \* llmusage rows in insertion order
    last,       \* the request handled last and what its caller observed
    calls,      \* per user, track calls issued so far (scenario runs)
    procs       \* concurrent track calls in flight (concurrent runs)

vars == <<users, ledger, last, calls, procs>>

\* The concurrent requests, each with its own database session.  pc is the
\* statement the call executes next, start the committed usage_count when
\* the call was issued, gate_saw the usage_count its quota check read,
\* loaded the usage_count its increment read, ret its return value.
Procs == {"p1", "p2"}

NoProcs ==
    [p \in Procs |-> [pc |-> "idle", start |-> 0, gate_saw |-> 0,
                      loaded |-> 0, ret |-> "none"]]

NoLast ==
    [op |-> "none", user |-> Ghost, success |-> FALSE, error_message |-> None,
     ret |-> "none", status |-> 0, detail |-> "", ext |-> 0,
     outcome |-> "none", provider |-> "none", denied |-> FALSE,
     tokens_used |-> 0, cost_usd |-> 0,
     model |-> "none", prompt_tokens |-> 0, completion_tokens |-> 0,
     caller |-> Ghost, summary |-> None, fault |-> "none",
     bad_request |-> FALSE]

UserRow(s, q, c) == [is_superuser |-> s, quota |-> q, usage_count |-> c]

Bounded(U, L) ==
    /\ Len(L) <= MaxRecords
    /\ \A u \in DOMAIN U : U[u].usage_count <= MaxUsage

\* The user is one the Quota Gate turns away: a non-superuser whose
\* usage_count has reached quota (or an id without a row).
GateDeniedAt(U, user_id) ==
    \/ user_id \notin DOMAIN U
    \/ (~U[user_id].is_superuser
          /\ U[user_id].usage_count >= U[user_id].quota)

\* ------------------------------------------------------------------------
\* Direct calls of the orchestrator and of the gate
\* ------------------------------------------------------------------------
TrackCall(user_id, provider, model, request_type, prompt_tokens, completion_tokens, success, error_message) ==
    LET r == enforce_quota_and_track_usage(users, ledger, user_id, provider,
                 model, request_type, prompt_tokens, completion_tokens,
                 success, error_message)
    IN  /\ Bounded(r.U, r.L)
        /\ users' = r.U
        /\ ledger' = r.L
        /\ last' = [NoLast EXCEPT !.op = "track", !.user = user_id,
                        !.success = success,
                        !.error_message = error_message,
                        !.provider = provider, !.ret = r.ret,
                        !.model = model,
                        !.prompt_tokens = prompt_tokens,
                        !.completion_tokens = completion_tokens]

CheckQuota(user_id) ==
    /\ last' = [NoLast EXCEPT !.op = "check", !.user = user_id,
                    !.ret = IF check_user_quota(users, user_id)
                            THEN "true" ELSE "false"]
    /\ UNCHANGED <<users, ledger>>

\* ------------------------------------------------------------------------
\* Track-only runs: any single-threaded sequence of track and gate calls
\* ------------------------------------------------------------------------
ErrArgs == {None, Some("timeout"), Some(""), Some(LongMsg)}

InitTrack ==
    /\ \E q \in 0..MaxQuota, c \in 0..MaxUsage, c2 \in {0, MaxQuota} :
          users = [u \in UserIds |->
                      IF u = "u1" THEN UserRow(FALSE, q, c)
                      ELSE UserRow(TRUE, 1, c2)]
    /\ ledger = <<>>
    /\ last = NoLast
    /\ calls = [u \in UserIds |-> 0]
    /\ procs = NoProcs

TrackStep ==
    \E user_id \in AllIds, success \in BOOLEAN, error_message \in ErrArgs :
        /\ TrackCall(user_id, "openai", "gpt-4", "content_generation",
                     IF success THEN 100 ELSE 0, IF success THEN 50 ELSE 0,
                     success, error_message)
        /\ UNCHANGED <<calls, procs>>

CheckStep ==
    \E user_id \in AllIds : CheckQuota(user_id) /\ UNCHANGED <<calls, procs>>

NextTrack == TrackStep \/ CheckStep

SpecTrack == InitTrack /\ [][NextTrack]_vars

\* ------------------------------------------------------------------------
\* The quota scenario: only successful track calls, counters start at zero
\* ------------------------------------------------------------------------
InitScenario ==
    /\ \E q1 \in 0..MaxQuota, q2 \in 0..MaxQuota :
          users = [u \in UserIds |->
                      IF u = "u1" THEN UserRow(FALSE, q1, 0)
                      ELSE UserRow(FALSE, q2, 0)]
    /\ ledger = <<>>
    /\ last = NoLast
    /\ calls = [u \in UserIds |-> 0]
    /\ procs = NoProcs

ScenarioStep ==
    \E user_id \in UserIds :
        /\ calls[user_id] < MaxCalls
        /\ TrackCall(user_id, "openai", "gpt-4", "content_generation",
                     100, 50, TRUE, None)
        /\ calls' = [calls EXCEPT ![user_id] = @ + 1]
        /\ UNCHANGED procs

NextScenario == ScenarioStep

SpecScenario == InitScenario /\ [][NextScenario]_vars

\* ------------------------------------------------------------------------
\* Pricing runs: track calls over priced and unpriced (provider, model)
\* pairs and several token counts
\* ------------------------------------------------------------------------
\* Every pair of the price table, a provider the table does not have, a
\* model the table does not list under a provider it has, and a model that
\* is listed under another provider only.
CostPairs ==
    {<<p, m>> : p \in DOMAIN LLM_COSTS, m \in {"gpt-4", "gpt-3.5-turbo",
        "gpt-4o", "claude-3-opus", "claude-3-sonnet", "claude-3-haiku",
        "gemini-1.5-flash", "gemini-1.5-pro", "gemini-1.0-pro"}}
    \cup {<<"mistral", "gpt-4">>, <<"mistral", "mistral-large">>,
          <<"openai", "gpt-5">>}

TokenCounts == {0, 50, 100, 1000}

\* One non-superuser with room for one successful request; the calls of a
\* pricing run are those made while the gate admits the user.
InitCost ==
    /\ users = [u \in UserIds |->
                   IF u = "u1" THEN UserRow(FALSE, 1, 0)
                   ELSE UserRow(TRUE, 1, 0)]
    /\ ledger = <<>>
    /\ last = NoLast
    /\ calls = [u \in UserIds |-> 0]
    /\ procs = NoProcs

CostStep ==
    \E pair \in CostPairs, prompt_tokens \in TokenCounts,
       completion_tokens \in TokenCounts :
        /\ ~GateDeniedAt(users, "u1")
        /\ TrackCall("u1", pair[1], pair[2], "content_generation",
                     prompt_tokens, completion_tokens, TRUE, None)
        /\ UNCHANGED <<calls, procs>>

NextCost == CostStep

SpecCost == InitCost /\ [][NextCost]_vars

\* ------------------------------------------------------------------------
\* /llm routes
\* ------------------------------------------------------------------------
\* POST /llm/generate-content for the authenticated user user_id.  The
\* HTTPException(400) for an unsupported provider is raised inside the try
\* block, so the "except Exception" clause turns it into a 500.
GenerateContent(user_id, provider, model, out) ==
    /\ user_id \in DOMAIN users
    /\ LET known == provider \in {"openai", "anthropic", "gemini"}
           r == IF provider = "openai"
                THEN OpenAIClient_generate_content(users, ledger, user_id,
                                                   model, out)
                ELSE IF provider = "anthropic"
                THEN AnthropicClient_generate_content(users, ledger, user_id,
                                                      model, out)
                ELSE IF provider = "gemini"
                THEN GeminiClient_generate_content(users, ledger, user_id,
                                                   model, out)
                ELSE ClientRaised(users, ledger,
                                  "400: Unsupported provider", 0)
       IN  /\ Bounded(r.U, r.L)
           /\ users' = r.U
           /\ ledger' = r.L
           /\ last' = [NoLast EXCEPT
                          !.op = "generate_content", !.user = user_id,
                          !.provider = provider,
                          !.outcome = IF known THEN out.kind ELSE "none",
                          !.bad_request = ~known,
                          !.error_message = IF known /\ out.kind = "error"
                                            THEN Some(out.msg) ELSE None,
                          !.denied = GateDeniedAt(users, user_id),
                          !.status = IF r.raised THEN 500 ELSE 200,
                          !.detail = IF r.raised
                                     THEN "LLM request failed: " \o r.exc
                                     ELSE "content",
                          !.tokens_used = r.tokens_used,
                          !.cost_usd = r.cost_usd,
                          !.ext = r.ext]

\* POST /llm/generate-image.  prompt is None when the request carries no
\* prompt; that HTTPException(400) is also raised inside the try block and
\* is not a ValueError, so it leaves as a 500.  The deployment is taken to
\* have OPENAI_API_KEY set, so constructing the client does not raise.
GenerateImage(user_id, prompt, out) ==
    /\ user_id \in DOMAIN users
    /\ LET r == IF prompt = None \/ prompt = Some("")
                THEN ClientRaised(users, ledger, "400: Prompt is required", 0)
                        @@ [value_error |-> FALSE]
                ELSE ImageGenerationClient_generate_image(users, ledger,
                                                          user_id, out)
       IN  /\ Bounded(r.U, r.L)
           /\ users' = r.U
           /\ ledger' = r.L
           /\ last' = [NoLast EXCEPT
                          !.op = "generate_image", !.user = user_id,
                          !.provider = "openai",
                          !.outcome = IF r.ext = 1 THEN out.kind ELSE "none",
                          !.bad_request = (prompt = None \/ prompt = Some("")),
                          !.denied = GateDeniedAt(users, user_id),
                          !.status = IF ~r.raised THEN 200
                                     ELSE IF r.value_error THEN 400
                                     ELSE 500,
                          !.detail = IF ~r.raised THEN "image"
                                     ELSE IF r.value_error THEN r.exc
                                     ELSE "Image generation failed: " \o r.exc,
                          !.cost_usd = r.cost_usd,
                          !.ext = r.ext]

\* ImageGenerationClient(session, user_id).generate_image called directly,
\* for any id; ret is "raise" or "return".
ImageClientCall(user_id, out) ==
    LET r == ImageGenerationClient_generate_image(users, ledger, user_id, out)
    IN  /\ Bounded(r.U, r.L)
        /\ users' = r.U
        /\ ledger' = r.L
        /\ last' = [NoLast EXCEPT
                       !.op = "image_client", !.user = user_id,
                       !.provider = "openai",
                       !.outcome = IF r.ext = 1 THEN out.kind ELSE "none",
                       !.denied = GateDeniedAt(users, user_id),
                       !.ret = IF r.raised THEN "raise" ELSE "return",
                       !.detail = IF r.raised THEN r.exc ELSE "image",
                       !.cost_usd = r.cost_usd,
                       !.ext = r.ext]

\* ------------------------------------------------------------------------
\* /users routes that write the counters
\* ------------------------------------------------------------------------
\* POST /users/me/increment-usage
IncrementMyUsage(user_id) ==
    /\ user_id \in DOMAIN users
    /\ LET r == increment_user_usage(users, user_id)
       IN  /\ Bounded(r.U, ledger)
           /\ users' = r.U
           /\ last' = [NoLast EXCEPT !.op = "increment_my_usage",
                           !.user = user_id,
                           !.status = IF r.ok THEN 200 ELSE 404]
    /\ UNCHANGED ledger

\* POST /users/{user_id}/increment-usage, superuser only
IncrementUserUsage(admin, user_id) ==
    /\ admin \in DOMAIN users /\ users[admin].is_superuser
    /\ LET r == increment_user_usage(users, user_id)
       IN  /\ Bounded(r.U, ledger)
           /\ users' = r.U
           /\ last' = [NoLast EXCEPT !.op = "increment_user_usage",
                           !.user = user_id,
                           !.status = IF r.ok THEN 200 ELSE 404]
    /\ UNCHANGED ledger

\* crud.update_user: the fields set in the request replace the row's.
update_user(U, user_id, user_in) ==
    [U EXCEPT ![user_id].quota =
                  IF user_in.quota = None THEN @ ELSE user_in.quota[1],
              ![user_id].usage_count =
                  IF user_in.usage_count = None THEN @
                  ELSE user_in.usage_count[1]]

\* PATCH /users/{user_id}, superuser only
UpdateUser(admin, user_id, user_in) ==
    /\ admin \in DOMAIN users /\ users[admin].is_superuser
    /\ IF user_id \notin DOMAIN users
       THEN /\ users' = users
            /\ last' = [NoLast EXCEPT !.op = "update_user",
                            !.user = user_id, !.status = 404]
       ELSE /\ users' = update_user(users, user_id, user_in)
            /\ last' = [NoLast EXCEPT !.op = "update_user",
                            !.user = user_id, !.status = 200]
    /\ UNCHANGED ledger

\* PATCH /users/{user_id}/client-specifics: of the counters only quota is
\* among the allowed fields.
UpdateClientSpecifics(user_id, user_in) ==
    /\ IF user_id \notin DOMAIN users
       THEN /\ users' = users
            /\ last' = [NoLast EXCEPT !.op = "update_client_specifics",
                            !.user = user_id, !.status = 404]
       ELSE /\ users' = IF user_in.quota = None THEN users
                        ELSE [users EXCEPT ![user_id].quota = user_in.quota[1]]
            /\ last' = [NoLast EXCEPT !.op = "update_client_specifics",
                            !.user = user_id, !.status = 200]
    /\ UNCHANGED ledger

\* ------------------------------------------------------------------------
\* LLM request runs: text and image requests of two users
\* ------------------------------------------------------------------------
TextOutcomes ==
    {ProviderOk(100, 50, 301), ProviderUnusable(100, 50),
     ProviderError("timeout"), ProviderError(LongMsg)}

ImageOutcomes ==
    {ProviderOk(0, 0, 0), ProviderUnusable(0, 0), ProviderError("timeout")}

DefaultModel(provider) ==
    CASE provider = "openai" -> "gpt-4"
      [] provider = "anthropic" -> "claude-3-sonnet"
      [] provider = "gemini" -> "gemini-1.5-flash"
      [] OTHER -> "gpt-4"

\* The requests of one user, who may or may not be a superuser.
InitRoutes ==
    /\ \E q \in 0..MaxQuota, s \in BOOLEAN :
          users = [u \in UserIds |->
                      IF u = "u1" THEN UserRow(s, q, 0)
                      ELSE UserRow(TRUE, 1, 0)]
    /\ ledger = <<>>
    /\ last = NoLast
    /\ calls = [u \in UserIds |-> 0]
    /\ procs = NoProcs

TextRequest ==
    \E user_id \in {"u1"},
       provider \in {"openai", "anthropic", "gemini", "mistral"},
       out \in TextOutcomes :
        /\ GenerateContent(user_id, provider, DefaultModel(provider), out)
        /\ UNCHANGED <<calls, procs>>

ImageRequest ==
    \E user_id \in {"u1"}, prompt \in {None, Some("a cat")},
       out \in ImageOutcomes :
        /\ GenerateImage(user_id, prompt, out)
        /\ UNCHANGED <<calls, procs>>

\* The image client called for an id that has no user row.
ImageClientStep ==
    \E out \in ImageOutcomes :
        /\ ImageClientCall(Ghost, out)
        /\ UNCHANGED <<calls, procs>>

NextRoutes == TextRequest \/ ImageRequest \/ ImageClientStep

SpecRoutes == InitRoutes /\ [][NextRoutes]_vars

\* ------------------------------------------------------------------------
\* Usage summaries
\* ------------------------------------------------------------------------
\* The body both summary routes return when the aggregator gives nothing.
EmptySummaryBody ==
    [total_requests |-> 0, total_tokens |-> 0, total_cost_usd |-> 0,
     requests_by_provider |-> <<>>, requests_by_type |-> <<>>]

\* crud.get_user_llm_usage_summary called for any id; it always returns a
\* summary object.
Summarize(user_id) ==
    /\ last' = [NoLast EXCEPT !.op = "summarize", !.user = user_id,
                    !.status = 200,
                    !.summary = get_user_llm_usage_summary(ledger, user_id)]
    /\ UNCHANGED <<users, ledger>>

\* GET /users/me/llm-usage-summary
GetMyUsageSummary(current_user) ==
    /\ current_user \in DOMAIN users
    /\ LET usage_summary == get_user_llm_usage_summary(ledger, current_user)
       IN  last' = [NoLast EXCEPT !.op = "my_usage_summary",
                       !.user = current_user, !.caller = current_user,
                       !.status = 200,
                       !.summary = IF usage_summary = None
                                   THEN EmptySummaryBody ELSE usage_summary]
    /\ UNCHANGED <<users, ledger>>

\* GET /users/{user_id}/llm-usage-summary
GetUserUsageSummary(current_user, user_id) ==
    /\ current_user \in DOMAIN users
    /\ IF current_user # user_id /\ ~users[current_user].is_superuser
       THEN last' = [NoLast EXCEPT !.op = "user_usage_summary",
                        !.user = user_id, !.caller = current_user,
                        !.status = 403,
                        !.detail =
                          "You can only access your own LLM usage summary"]
       ELSE LET usage_summary == get_user_llm_usage_summary(ledger, user_id)
            IN  last' = [NoLast EXCEPT !.op = "user_usage_summary",
                            !.user = user_id, !.caller = current_user,
                            !.status = 200,
                            !.summary = IF usage_summary = None
                                        THEN EmptySummaryBody
                                        ELSE usage_summary]
    /\ UNCHANGED <<users, ledger>>

\* Runs of tracked text requests of two providers, image requests and
\* summaries, for a non-superuser and a superuser.
SummaryCalls ==
    {[provider |-> "openai", model |-> "gpt-4", prompt_tokens |-> 100,
      completion_tokens |-> 50, success |-> TRUE, error_message |-> None],
     [provider |-> "gemini", model |-> "gemini-1.5-flash",
      prompt_tokens |-> 10, completion_tokens |-> 6, success |-> TRUE,
      error_message |-> None],
     [provider |-> "openai", model |-> "gpt-4", prompt_tokens |-> 0,
      completion_tokens |-> 0, success |-> FALSE,
      error_message |-> Some("timeout")]}

InitSummary ==
    /\ users = [u \in UserIds |->
                   IF u = "u1" THEN UserRow(FALSE, MaxQuota, 0)
                   ELSE UserRow(TRUE, 1, 0)]
    /\ ledger = <<>>
    /\ last = NoLast
    /\ calls = [u \in UserIds |-> 0]
    /\ procs = NoProcs

SummaryTrack ==
    \E user_id \in UserIds, c \in SummaryCalls :
        /\ TrackCall(user_id, c.provider, c.model, "content_generation",
                     c.prompt_tokens, c.completion_tokens, c.success,
                     c.error_message)
        /\ UNCHANGED <<calls, procs>>

SummaryImage ==
    \E user_id \in UserIds :
        /\ GenerateImage(user_id, Some("a cat"), ProviderOk(0, 0, 0))
        /\ UNCHANGED <<calls, procs>>

SummaryRead ==
    /\ \/ \E user_id \in AllIds : Summarize(user_id)
       \/ \E current_user \in UserIds : GetMyUsageSummary(current_user)
       \/ \E current_user \in UserIds, user_id \in AllIds :
              GetUserUsageSummary(current_user, user_id)
    /\ UNCHANGED <<calls, procs>>

NextSummary == SummaryTrack \/ SummaryImage \/ SummaryRead

SpecSummary == InitSummary /\ [][NextSummary]_vars

\* ------------------------------------------------------------------------
\* Every writer of the ledger: track called with any combination of success
\* flag and error message, the text clients and the image client
\* ------------------------------------------------------------------------
InitWriters ==
    /\ \E q \in 0..MaxQuota :
          users = [u \in UserIds |->
                      IF u = "u1" THEN UserRow(FALSE, q, 0)
                      ELSE UserRow(TRUE, 1, 0)]
    /\ ledger = <<>>
    /\ last = NoLast
    /\ calls = [u \in UserIds |-> 0]
    /\ procs = NoProcs

WritersTrack ==
    \E user_id \in UserIds, success \in BOOLEAN,
       error_message \in {None, Some("timeout")} :
        /\ TrackCall(user_id, "openai", "gpt-4", "content_generation",
                     IF success THEN 100 ELSE 0, IF success THEN 50 ELSE 0,
                     success, error_message)
        /\ UNCHANGED <<calls, procs>>

WritersText ==
    \E user_id \in UserIds, provider \in {"openai", "gemini"},
       out \in {ProviderOk(100, 50, 301), ProviderUnusable(100, 50),
                ProviderError("timeout")} :
        /\ GenerateContent(user_id, provider, DefaultModel(provider), out)
        /\ UNCHANGED <<calls, procs>>

WritersImage ==
    \E user_id \in UserIds, out \in ImageOutcomes :
        /\ GenerateImage(user_id, Some("a cat"), out)
        /\ UNCHANGED <<calls, procs>>

NextWriters == WritersTrack \/ WritersText \/ WritersImage

SpecWriters == InitWriters /\ [][NextWriters]_vars

\* ------------------------------------------------------------------------
\* Track calls over a database whose commits may fail
\* ------------------------------------------------------------------------
Faults == {"none", "create_llm_usage", "increment_user_usage"}

FaultyTrackCall(user_id, success, error_message, fault) ==
    LET r == enforce_quota_and_track_usage_db(users, ledger, user_id,
                 "openai", "gpt-4", "content_generation",
                 IF success THEN 100 ELSE 0, IF success THEN 50 ELSE 0,
                 success, error_message, fault)
    IN  /\ Bounded(r.U, r.L)
        /\ users' = r.U
        /\ ledger' = r.L
        /\ last' = [NoLast EXCEPT !.op = "track", !.user = user_id,
                        !.success = success,
                        !.error_message = error_message,
                        !.provider = "openai", !.model = "gpt-4",
                        !.prompt_tokens = IF success THEN 100 ELSE 0,
                        !.completion_tokens = IF success THEN 50 ELSE 0,
                        !.ret = r.ret, !.fault = fault]

InitFaults ==
    /\ \E q \in 0..MaxQuota :
          users = [u \in UserIds |->
                      IF u = "u1" THEN UserRow(FALSE, q, 0)
                      ELSE UserRow(TRUE, 1, 0)]
    /\ ledger = <<>>
    /\ last = NoLast
    /\ calls = [u \in UserIds |-> 0]
    /\ procs = NoProcs

FaultyTrackStep ==
    \E user_id \in UserIds, success \in BOOLEAN, fault \in Faults :
        /\ FaultyTrackCall(user_id, success,
                           IF success THEN None ELSE Some("timeout"), fault)
        /\ UNCHANGED <<calls, procs>>

NextFaults == FaultyTrackStep

SpecFaults == InitFaults /\ [][NextFaults]_vars

\* ------------------------------------------------------------------------
\* Concurrent runs: two requests of one user execute
\* enforce_quota_and_track_usage(success=True) at the same time, each in its
\* own session; every database statement is one step
\* ------------------------------------------------------------------------
RaceUser == "u1"

\* crud.check_user_quota: reads the user row and decides.
RaceCheck(p) ==
    /\ procs[p].pc = "check"
    /\ procs' = [procs EXCEPT
                    ![p].gate_saw = users[RaceUser].usage_count,
                    ![p].pc = IF check_user_quota(users, RaceUser)
                              THEN "create" ELSE "done",
                    ![p].ret = IF check_user_quota(users, RaceUser)
                               THEN "none" ELSE "false"]
    /\ UNCHANGED <<users, ledger, last, calls>>

\* crud.create_llm_usage: inserts the record and commits.
RaceCreate(p) ==
    /\ procs[p].pc = "create"
    /\ ledger' = create_llm_usage(ledger,
                      LLMUsageCreate("openai", "gpt-4", 100, 50, 150,
                          calculate_llm_cost("openai", "gpt-4", 100, 50),
                          "content_generation", TRUE, None),
                      RaceUser)
    /\ procs' = [procs EXCEPT ![p].pc = "load"]
    /\ UNCHANGED <<users, last, calls>>

\* crud.increment_user_usage, first half: the row, expired by the commit
\* before, is read again; usage_count += 1 is computed in the session.
RaceLoad(p) ==
    /\ procs[p].pc = "load"
    /\ procs' = [procs EXCEPT ![p].loaded = users[RaceUser].usage_count,
                              ![p].pc = "store"]
    /\ UNCHANGED <<users, ledger, last, calls>>

\* crud.increment_user_usage, second half: session.commit() writes the
\* computed value with UPDATE ... SET usage_count = <value>; the call
\* returns True.
RaceStore(p) ==
    /\ procs[p].pc = "store"
    /\ users' = [users EXCEPT
                    ![RaceUser].usage_count = procs[p].loaded + 1]
    /\ procs' = [procs EXCEPT ![p].pc = "done", ![p].ret = "true"]
    /\ UNCHANGED <<ledger, last, calls>>

InitRace ==
    /\ \E s \in BOOLEAN, q \in 0..MaxQuota, c \in 0..MaxUsage :
          /\ users = [u \in UserIds |->
                         IF u = "u1" THEN UserRow(s, q, c)
                         ELSE UserRow(TRUE, 1, 0)]
          /\ procs = [p \in Procs |->
                         [pc |-> "check", start |-> c, gate_saw |-> 0,
                          loaded |-> 0, ret |-> "none"]]
    /\ ledger = <<>>
    /\ last = NoLast
    /\ calls = [u \in UserIds |-> 0]

NextRace ==
    \E p \in Procs :
        RaceCheck(p) \/ RaceCreate(p) \/ RaceLoad(p) \/ RaceStore(p)

SpecRace == InitRace /\ [][NextRace]_vars

\* ------------------------------------------------------------------------
\* All exposed operations that touch the counters or the ledger
\* ------------------------------------------------------------------------
\* Request bodies of the update routes: one sets usage_count, one sets
\* quota, every other field is left unset.
UsagePatches ==
    {[usage_count |-> Some(c), quota |-> None] : c \in {0, MaxUsage}}
QuotaPatches ==
    {[usage_count |-> None, quota |-> Some(q)] : q \in 0..MaxQuota}

Init ==
    /\ users = [u \in UserIds |->
                   IF u = "u1" THEN UserRow(FALSE, MaxQuota, 0)
                   ELSE UserRow(TRUE, 1, 0)]
    /\ ledger = <<>>
    /\ last = NoLast
    /\ calls = [u \in UserIds |-> 0]
    /\ procs = NoProcs

OpsTextRequest ==
    \E user_id \in UserIds, provider \in {"openai", "mistral"},
       out \in {ProviderOk(100, 50, 301), ProviderUnusable(100, 50),
                ProviderError("timeout")} :
        /\ GenerateContent(user_id, provider, DefaultModel(provider), out)
        /\ UNCHANGED <<calls, procs>>

OpsImageRequest ==
    \E user_id \in UserIds, out \in ImageOutcomes :
        /\ GenerateImage(user_id, Some("a cat"), out)
        /\ UNCHANGED <<calls, procs>>

OpsIncrementMine ==
    \E user_id \in UserIds : IncrementMyUsage(user_id) /\ UNCHANGED <<calls, procs>>

OpsIncrementOther ==
    \E admin \in UserIds, user_id \in AllIds :
        IncrementUserUsage(admin, user_id) /\ UNCHANGED <<calls, procs>>

OpsUpdateUser ==
    \E admin \in UserIds, user_id \in AllIds, user_in \in UsagePatches :
        UpdateUser(admin, user_id, user_in) /\ UNCHANGED <<calls, procs>>

OpsUpdateClientSpecifics ==
    \E user_id \in {"u1", Ghost}, user_in \in QuotaPatches :
        UpdateClientSpecifics(user_id, user_in) /\ UNCHANGED <<calls, procs>>

Next ==
    \/ OpsTextRequest
    \/ OpsImageRequest
    \/ OpsIncrementMine
    \/ OpsIncrementOther
    \/ OpsUpdateUser
    \/ OpsUpdateClientSpecifics

Spec == Init /\ [][Next]_vars

\* ------------------------------------------------------------------------
\* Vocabulary of the properties
\* ------------------------------------------------------------------------
UsageOf(U, u) == IF u \in DOMAIN U THEN U[u].usage_count ELSE 0

NonSuper(U, u) == u \in DOMAIN U /\ ~U[u].is_superuser

\* The step appended exactly n rows, all owned by u, and kept the old rows.
AppendedFor(u, n) ==
    /\ Len(ledger') = Len(ledger) + n
    /\ SubSeq(ledger', 1, Len(ledger)) = ledger
    /\ \A i \in (Len(ledger) + 1)..Len(ledger') : ledger'[i].user_id = u

NewestRecord == ledger[Len(ledger)]

Min(a, b) == IF a <= b THEN a ELSE b

\* ------------------------------------------------------------------------
\* Properties of the orchestrator and the gate
\* ------------------------------------------------------------------------

\* C1: no track call takes a non-superuser whose usage_count is at most
\* quota to a state where usage_count exceeds quota; with the counter at
\* most quota initially this keeps usage_count <= quota in every state of a
\* single-threaded sequence of track calls.
C1_TrackKeepsWithinQuota ==
    [][\A u \in UserIds :
          (NonSuper(users, u) /\ users[u].usage_count <= users[u].quota)
              => users'[u].usage_count <= users'[u].quota]_vars

\* A track call has just consumed the last unit of a non-superuser's quota.
C1_Witness ==
    /\ last.op = "track" /\ last.ret = "true" /\ last.success
    /\ last.user = "u1"
    /\ users["u1"].quota >= 1
    /\ users["u1"].usage_count = users["u1"].quota

\* C2 as stated: every track call with success=true appends exactly one
\* record for the user and raises the user's usage_count by exactly 1.
C2_EverySuccessfulCallCounts ==
    [][(last'.op = "track" /\ last'.success)
          => /\ AppendedFor(last'.user, 1)
             /\ UsageOf(users', last'.user) = UsageOf(users, last'.user) + 1]_vars

\* C2 amended: every track call with success=true that returns true appends
\* exactly one record for the user, with success=true, and raises that
\* user's usage_count by exactly 1, leaving every other user's row alone;
\* one that returns false appends nothing and changes no counter.
C2_AdmittedSuccessCounts ==
    [][(last'.op = "track" /\ last'.success)
          => /\ last'.ret = "true"
                  => /\ AppendedFor(last'.user, 1)
                     /\ ledger'[Len(ledger')].success
                     /\ users'[last'.user].usage_count
                            = users[last'.user].usage_count + 1
                     /\ \A v \in UserIds \ {last'.user} :
                            users'[v] = users[v]
             /\ last'.ret = "false"
                  => (ledger' = ledger /\ users' = users)]_vars

\* A successful track call was admitted and its record is the newest row.
C2_Witness ==
    /\ last.op = "track" /\ last.success /\ last.ret = "true"
    /\ Len(ledger) >= 1
    /\ NewestRecord.user_id = last.user /\ NewestRecord.success
    /\ users[last.user].usage_count >= 1

\* C3 as stated: every track call with success=false appends exactly one
\* record, that record has a non-empty error message, and usage_count is
\* unchanged.
C3_EveryFailedCallRecorded ==
    [][(last'.op = "track" /\ ~last'.success)
          => /\ AppendedFor(last'.user, 1)
             /\ ledger'[Len(ledger')].error_message # None
             /\ ledger'[Len(ledger')].error_message # Some("")
             /\ users' = users]_vars

\* C3 amended: every track call with success=false that returns true
\* appends exactly one record, with success=false and the error message
\* exactly as the caller supplied it, and changes no usage_count; one that
\* returns false appends nothing and changes no usage_count either.
C3_AdmittedFailureRecorded ==
    [][(last'.op = "track" /\ ~last'.success)
          => /\ last'.ret = "true"
                  => /\ AppendedFor(last'.user, 1)
                     /\ ~ledger'[Len(ledger')].success
                     /\ ledger'[Len(ledger')].error_message
                            = last'.error_message
             /\ last'.ret = "false" => ledger' = ledger
             /\ users' = users]_vars

\* A failed call with a non-empty message was admitted and recorded.
C3_Witness ==
    /\ last.op = "track" /\ ~last.success /\ last.ret = "true"
    /\ last.error_message = Some("timeout")
    /\ Len(ledger) >= 1
    /\ NewestRecord.user_id = last.user
    /\ NewestRecord.error_message = Some("timeout")

\* C4: when the Quota Gate denies the user, track returns false and leaves
\* the users table and the ledger exactly as they were.
C4_DeniedCallChangesNothing ==
    [][(last'.op = "track" /\ GateDeniedAt(users, last'.user))
          => /\ last'.ret = "false"
             /\ users' = users
             /\ ledger' = ledger]_vars

\* A track call for a non-superuser at quota has returned false.
C4_Witness ==
    /\ last.op = "track" /\ last.ret = "false" /\ last.success
    /\ last.user = "u1"
    /\ users["u1"].quota >= 1
    /\ users["u1"].usage_count = users["u1"].quota

\* C5: check_user_quota returns true for every superuser, usage_count <
\* quota for every non-superuser, false for an unknown user id, and changes
\* neither the users table nor the ledger.
C5_GateContract ==
    [][last'.op = "check"
          => /\ last'.ret =
                   (IF last'.user \notin DOMAIN users THEN "false"
                    ELSE IF users[last'.user].is_superuser THEN "true"
                    ELSE IF users[last'.user].usage_count
                                < users[last'.user].quota THEN "true"
                    ELSE "false")
             /\ users' = users
             /\ ledger' = ledger]_vars

\* The gate has passed a superuser whose usage_count is not below quota.
C5_Witness ==
    /\ last.op = "check" /\ last.ret = "true"
    /\ last.user \in UserIds
    /\ users[last.user].is_superuser
    /\ users[last.user].usage_count >= users[last.user].quota

\* C6: for a non-superuser starting at usage_count 0 with quota q, after n
\* successful-flag track calls exactly min(n, q) of them returned true:
\* usage_count and the number of the user's records are both min(n, q), and
\* the call made last returned true iff it was among the first q.
C6_FirstQCallsPass ==
    \A u \in UserIds :
        /\ users[u].usage_count = Min(calls[u], users[u].quota)
        /\ Len(RecordsOf(ledger, u)) = Min(calls[u], users[u].quota)
        /\ (last.op = "track" /\ last.user = u)
              => last.ret = (IF calls[u] <= users[u].quota
                             THEN "true" ELSE "false")

\* The user with quota 2 has made a third call, which was refused.
C6_Witness ==
    /\ users["u1"].quota = 2 /\ calls["u1"] = 3
    /\ last.op = "track" /\ last.user = "u1" /\ last.ret = "false"
    /\ users["u1"].usage_count = 2
    /\ Len(RecordsOf(ledger, "u1")) = 2

\* ------------------------------------------------------------------------
\* Properties of the LLM request paths
\* ------------------------------------------------------------------------
IsLLMRequest(l) == l.op \in {"generate_content", "generate_image"}

Response(l) == <<l.status, l.detail>>

\* The request met a failing provider call while the user still had quota.
ProviderFailedWithQuota(l) == ~l.denied /\ l.outcome = "error"

\* Rows the step added to the ledger.
NewRows == (Len(ledger) + 1)..Len(ledger')

\* C7: a text-generation request made by a non-superuser whose usage_count
\* has reached quota ends in a rejection; it never returns generated
\* content with status 200.
C7_ExhaustedUserIsRejected ==
    (last.op = "generate_content" /\ last.denied) => last.status # 200

\* C8: on each request path, the response a caller gets while the quota is
\* exhausted differs from the response a caller gets when the provider call
\* fails; stated over two consecutive requests of the same path.
C8_RejectionDistinctFromFailure ==
    [][(/\ IsLLMRequest(last) /\ IsLLMRequest(last')
        /\ last.op = last'.op
        /\ \/ (last.denied /\ ProviderFailedWithQuota(last'))
           \/ (ProviderFailedWithQuota(last) /\ last'.denied))
          => Response(last) # Response(last')]_vars

\* C9: every request that makes one external provider call adds exactly one
\* record to the ledger.
C9_OneRecordPerExternalCall ==
    [][(IsLLMRequest(last') /\ last'.ext = 1)
          => Len(ledger') = Len(ledger) + 1]_vars

\* C10 as stated: every step that increases a user's usage_count is a
\* tracked request with success=true of that user that appends a
\* UsageRecord for that user in the same request.
C10_OnlyTrackedSuccessIncrements ==
    [][\A u \in UserIds :
          users'[u].usage_count > users[u].usage_count
              => /\ last'.op \in {"track", "generate_content",
                                  "generate_image"}
                 /\ last'.user = u
                 /\ \E i \in NewRows :
                       ledger'[i].user_id = u /\ ledger'[i].success]_vars

\* C10 amended: every step that increases a user's usage_count is either a
\* text or image generation request of that user that appends a
\* success=true record for that user and raises the counter by exactly 1,
\* or one of the two increment-usage routes (exactly 1, no record), or the
\* superuser's user update (which sets the counter, no record).
C10_IncrementSources ==
    [][\A u \in UserIds :
          users'[u].usage_count > users[u].usage_count
              => /\ last'.user = u
                 /\ \/ /\ last'.op \in {"generate_content", "generate_image"}
                       /\ users'[u].usage_count = users[u].usage_count + 1
                       /\ \E i \in NewRows :
                             ledger'[i].user_id = u /\ ledger'[i].success
                    \/ /\ last'.op \in {"increment_my_usage",
                                        "increment_user_usage"}
                       /\ users'[u].usage_count = users[u].usage_count + 1
                       /\ ledger' = ledger
                    \/ /\ last'.op = "update_user"
                       /\ ledger' = ledger]_vars

\* A text request was tracked as successful: the counter is up and the
\* user's success=true record is the newest row.
C10_Witness ==
    /\ last.op = "generate_content" /\ last.status = 200
    /\ last.outcome = "ok" /\ ~last.denied
    /\ Len(ledger) >= 1
    /\ NewestRecord.user_id = last.user /\ NewestRecord.success
    /\ users[last.user].usage_count >= 1

\* ------------------------------------------------------------------------
\* Properties of the counters over all exposed operations
\* ------------------------------------------------------------------------

\* C11 as stated: no step of any exposed operation leaves a user's
\* usage_count lower than it was before the step.
C11_UsageNeverDecreases ==
    [][\A u \in UserIds :
          users'[u].usage_count >= users[u].usage_count]_vars

\* C11 amended: the only step that lowers a user's usage_count is the
\* superuser's user update of that user, which sets the counter to the
\* value in the request; tracked requests, image generation, the
\* increment-usage routes and the client-specifics update never lower it.
C11_OnlyUserUpdateLowersUsage ==
    [][\A u \in UserIds :
          users'[u].usage_count < users[u].usage_count
              => (last'.op = "update_user" /\ last'.user = u
                  /\ last'.status = 200)]_vars

\* An increment-usage call has raised the counter of a user past quota.
C11_Witness ==
    /\ last.op \in {"increment_my_usage", "increment_user_usage"}
    /\ last.status = 200
    /\ last.user \in UserIds
    /\ users[last.user].usage_count > users[last.user].quota

\* Number of rows the step added with success = true.
NewSuccessRows == Cardinality({i \in NewRows : ledger'[i].success})

\* C12 as stated: a text or image request made by a superuser leaves that
\* user's usage_count unchanged.
C12_SuperuserNeverCounted ==
    [][(IsLLMRequest(last') /\ users[last'.user].is_superuser)
          => users'[last'.user].usage_count
                 = users[last'.user].usage_count]_vars

\* C12 amended: the superuser exemption covers the ceiling only.  A text or
\* image request made by a superuser is never stopped by the gate, and it
\* raises that user's usage_count by exactly the number of success = true
\* records it appends: by 1 when the request is tracked as successful, by 0
\* when it fails.
C12_SuperuserCountedLikeOthers ==
    [][(IsLLMRequest(last') /\ users[last'.user].is_superuser)
          => /\ ~last'.denied
             /\ users'[last'.user].usage_count
                    = users[last'.user].usage_count + NewSuccessRows
             /\ NewSuccessRows <= 1
             /\ (last'.status = 200 => NewSuccessRows = 1)]_vars

\* A superuser whose counter is already past quota got a text answer, and
\* the newest record is the success record of that request.
C12_Witness ==
    /\ last.op = "generate_content"
    /\ last.status = 200
    /\ users[last.user].is_superuser
    /\ users[last.user].usage_count > users[last.user].quota
    /\ Len(ledger) >= 1
    /\ NewestRecord.success
    /\ NewestRecord.user_id = last.user

\* ------------------------------------------------------------------------
\* Properties of the ledger
\* ------------------------------------------------------------------------

\* C13: the ledger is append-only.  Every step of every operation keeps each
\* existing record, with all its field values, at its place in the ledger
\* and at most adds records after them, so no user's number of records ever
\* decreases.
C13_LedgerAppendOnly ==
    [][/\ Len(ledger') >= Len(ledger)
       /\ SubSeq(ledger', 1, Len(ledger)) = ledger
       /\ \A u \in AllIds :
             Len(RecordsOf(ledger', u)) >= Len(RecordsOf(ledger, u))]_vars

\* A request has appended a record behind an older record of another user.
C13_Witness ==
    /\ Len(ledger) >= 2
    /\ IsLLMRequest(last)
    /\ NewestRecord.user_id = last.user
    /\ ledger[1].user_id # last.user

\* C14: when the provider call of a text-generation request raises, the
\* request appends exactly one record with success = false, zero prompt and
\* completion tokens, zero cost and the provider's error text as its error
\* message, leaves every usage_count alone, and the caller receives that
\* same error.
C14_ProviderFailureRecordedVerbatim ==
    [][(last'.op = "generate_content" /\ last'.outcome = "error")
          => /\ AppendedFor(last'.user, 1)
             /\ ~ledger'[Len(ledger')].success
             /\ ledger'[Len(ledger')].prompt_tokens = 0
             /\ ledger'[Len(ledger')].completion_tokens = 0
             /\ ledger'[Len(ledger')].cost_usd = 0
             /\ ledger'[Len(ledger')].error_message = last'.error_message
             /\ users' = users
             /\ last'.status = 500
             /\ last'.detail
                    = "LLM request failed: " \o last'.error_message[1]]_vars

\* ------------------------------------------------------------------------
\* Properties of the Cost Calculator
\* ------------------------------------------------------------------------
\* The (provider, model) pairs that have a price.
PricedPairs ==
    {<<"openai", "gpt-4">>, <<"openai", "gpt-3.5-turbo">>,
     <<"openai", "gpt-4o">>, <<"anthropic", "claude-3-opus">>,
     <<"anthropic", "claude-3-sonnet">>, <<"anthropic", "claude-3-haiku">>,
     <<"gemini", "gemini-1.5-flash">>, <<"gemini", "gemini-1.5-pro">>,
     <<"gemini", "gemini-1.0-pro">>}

\* The step is a track call, with these arguments, for a user the gate
\* admits.
AdmittedTrack(l) ==
    l.op = "track" /\ ~GateDeniedAt(users, l.user)

C16_PricedPairCost ==
    [][(AdmittedTrack(last')
          /\ <<last'.provider, last'.model>> \in PricedPairs)
          => /\ AppendedFor(last'.user, 1)
             /\ ledger'[Len(ledger')].cost_usd
                    = last'.prompt_tokens
                          * LLM_COSTS[last'.provider][last'.model].input
                      + last'.completion_tokens
                          * LLM_COSTS[last'.provider][last'.model].output
             /\ (/\ last'.provider = "openai" /\ last'.model = "gpt-4"
                 /\ last'.prompt_tokens = 100
                 /\ last'.completion_tokens = 50)
                    => ledger'[Len(ledger')].cost_usd = 6000000]_vars

\* The openai/gpt-4 call with 100 and 50 tokens has been recorded.
C16_Witness ==
    /\ last.op = "track"
    /\ last.ret = "true"
    /\ last.provider = "openai"
    /\ last.model = "gpt-4"
    /\ last.prompt_tokens = 100
    /\ last.completion_tokens = 50
    /\ Len(ledger) = 1
    /\ NewestRecord.cost_usd = 6000000

\* ------------------------------------------------------------------------
\* Properties of the Usage Summary Aggregator
\* ------------------------------------------------------------------------
\* The last operation called the aggregator and returned its summary.
SummaryReturned(l) ==
    /\ l.op \in {"summarize", "my_usage_summary", "user_usage_summary"}
    /\ l.status = 200

\* Indices of the ledger rows owned by u.
RowsOwnedBy(u) == {i \in 1..Len(ledger) : ledger[i].user_id = u}

\* C17: summarising a user without records never fails and gives
\* total_requests = 0, total_tokens = 0, total_cost_usd = 0 and two empty
\* groupings, also for an id that has no user row.  The aggregator call and
\* the /me route always answer; the /{user_id} route answers whenever it
\* lets the caller through (own id, or caller is a superuser).
C17_NoRecordsZeroSummary ==
    (/\ last.op \in {"summarize", "my_usage_summary", "user_usage_summary"}
     /\ RowsOwnedBy(last.user) = {})
        => /\ (last.op # "user_usage_summary"
                 \/ last.caller = last.user
                 \/ users[last.caller].is_superuser) => last.status = 200
           /\ last.status = 200
                 => /\ last.summary.total_requests = 0
                    /\ last.summary.total_tokens = 0
                    /\ last.summary.total_cost_usd = 0
                    /\ DOMAIN last.summary.requests_by_provider = {}
                    /\ DOMAIN last.summary.requests_by_type = {}

\* The summary of an id without a user row was computed while the ledger
\* held records of other users.
C17_Witness ==
    /\ last.op = "summarize"
    /\ last.user = Ghost
    /\ last.status = 200
    /\ last.summary.total_requests = 0
    /\ Len(ledger) >= 1

\* Sum of f over the finite set S.
RECURSIVE SetSum(_, _)
SetSum(f, S) ==
    IF S = {} THEN 0
    ELSE LET x == CHOOSE y \in S : TRUE
         IN  f[x] + SetSum(f, S \ {x})

\* total_tokens of the ledger rows owned by u, added row by row.
LedgerTokensOf(u) ==
    SetSum([i \in 1..Len(ledger) |-> ledger[i].total_tokens], RowsOwnedBy(u))

\* C18: whenever a summary is returned for a user, its total_tokens equals
\* the sum of total_tokens over all ledger records owned by that user.
C18_TotalTokensIsSumOfRecords ==
    SummaryReturned(last)
        => last.summary.total_tokens = LedgerTokensOf(last.user)

\* A summary over two records of one user, of 150 and of 16 tokens, was
\* returned.
C18_Witness ==
    /\ SummaryReturned(last)
    /\ Cardinality(RowsOwnedBy(last.user)) = 2
    /\ last.summary.total_tokens = 166

\* C19: whenever a summary is returned for a user, total_requests is the
\* number of that user's records, successful and failed; the keys of
\* requests_by_provider are exactly the providers that occur in those
\* records and each maps to the number of records with that provider; the
\* same holds for requests_by_type and request types; so the counts of each
\* grouping add up to total_requests.
C19_CountsMatchRecords ==
    SummaryReturned(last)
        => LET s == last.summary
               rows == RowsOwnedBy(last.user)
           IN  /\ s.total_requests = Cardinality(rows)
               /\ DOMAIN s.requests_by_provider
                      = {ledger[i].provider : i \in rows}
               /\ \A p \in DOMAIN s.requests_by_provider :
                      s.requests_by_provider[p]
                          = Cardinality({i \in rows : ledger[i].provider = p})
               /\ DOMAIN s.requests_by_type
                      = {ledger[i].request_type : i \in rows}
               /\ \A t \in DOMAIN s.requests_by_type :
                      s.requests_by_type[t]
                          = Cardinality({i \in rows :
                                            ledger[i].request_type = t})
               /\ SetSum(s.requests_by_provider,
                         DOMAIN s.requests_by_provider) = s.total_requests
               /\ SetSum(s.requests_by_type,
                         DOMAIN s.requests_by_type) = s.total_requests

\* A summary was returned for a user with a failed text record and an image
\* record, both of provider openai.
C19_Witness ==
    /\ SummaryReturned(last)
    /\ last.summary.total_requests = 2
    /\ \E i \in RowsOwnedBy(last.user) : ~ledger[i].success
    /\ DOMAIN last.summary.requests_by_type
           = {"content_generation", "image_generation"}
    /\ DOMAIN last.summary.requests_by_provider = {"openai"}
    /\ last.summary.requests_by_provider["openai"] = 2

\* C20: summaries and counters are scoped to one user.  A text request, an
\* image request or an increment-usage call performed for a user B leaves,
\* for every other user A, the summary of A, the usage_count of A and the
\* records of A as they were.
C20_OtherUsersUntouched ==
    [][(last'.op \in {"generate_content", "generate_image",
                      "increment_my_usage", "increment_user_usage"})
          => \A a \in UserIds \ {last'.user} :
                /\ get_user_llm_usage_summary(ledger', a)
                       = get_user_llm_usage_summary(ledger, a)
                /\ users'[a].usage_count = users[a].usage_count
                /\ RecordsOf(ledger', a) = RecordsOf(ledger, a)]_vars

\* A successful request of one user was recorded and counted while another
\* user already had a record and a non-zero counter.
C20_Witness ==
    /\ IsLLMRequest(last)
    /\ last.status = 200
    /\ Len(ledger) >= 2
    /\ NewestRecord.user_id = last.user
    /\ NewestRecord.success
    /\ \E a \in UserIds \ {last.user} :
          /\ users[a].usage_count >= 1
          /\ get_user_llm_usage_summary(ledger, a).total_requests >= 1

\* ------------------------------------------------------------------------
\* Properties of the records, whoever wrote them
\* ------------------------------------------------------------------------
\* The record carries an error message exactly when it is a failure record.
MessageIffFailure(r) == (r.error_message # None) <=> ~r.success

\* C21 as stated: every record of the ledger, written by track with any
\* arguments or by a client, has an error message iff success is false.
C21_ErrorMessageIffFailure ==
    \A i \in 1..Len(ledger) : MessageIffFailure(ledger[i])

\* C21 amended: every record written by a text or image request has an error
\* message iff its success flag is false; a record written by a direct
\* track call carries the success flag and the error message of the call
\* unchanged, whatever their combination.
C21_ClientRecordsMessageIffFailure ==
    [][/\ IsLLMRequest(last')
          => \A i \in NewRows : MessageIffFailure(ledger'[i])
       /\ (last'.op = "track" /\ last'.ret = "true")
          => /\ AppendedFor(last'.user, 1)
             /\ ledger'[Len(ledger')].success = last'.success
             /\ ledger'[Len(ledger')].error_message
                    = last'.error_message]_vars

\* A text request whose provider call failed has written its failure record
\* with the provider's error text.
C21_Witness ==
    /\ last.op = "generate_content"
    /\ last.outcome = "error"
    /\ Len(ledger) >= 1
    /\ NewestRecord.user_id = last.user
    /\ ~NewestRecord.success
    /\ NewestRecord.error_message = Some("timeout")

\* ------------------------------------------------------------------------
\* Properties of track under persistence failures
\* ------------------------------------------------------------------------
\* C22: in a track call the gate admits, a failure while writing the record
\* ends the call with an error and writes nothing; a failure while updating
\* usage_count, after the record was written, ends the call with an error,
\* the record stays in the ledger and every usage_count keeps its old value.
C22_PersistenceFailurePropagates ==
    [][(last'.op = "track" /\ ~GateDeniedAt(users, last'.user))
          => /\ last'.fault = "create_llm_usage"
                => /\ last'.ret = "error"
                   /\ ledger' = ledger
                   /\ users' = users
             /\ (last'.fault = "increment_user_usage" /\ last'.success)
                => /\ last'.ret = "error"
                   /\ AppendedFor(last'.user, 1)
                   /\ ledger'[Len(ledger')].success
                   /\ users' = users]_vars

\* The counter update of a successful call failed: the call ended in an
\* error, its record is the newest of the ledger and the user's counter is
\* still zero.
C22_Witness ==
    /\ last.op = "track"
    /\ last.fault = "increment_user_usage"
    /\ last.ret = "error"
    /\ Len(ledger) >= 1
    /\ NewestRecord.user_id = last.user
    /\ NewestRecord.success
    /\ users[last.user].usage_count = 0

\* ------------------------------------------------------------------------
\* Properties of the order of provider call and gate
\* ------------------------------------------------------------------------
KnownProviders == {"openai", "anthropic", "gemini"}

\* C23: every text-generation request to one of the three clients makes its
\* provider call, which has returned or raised, before the gate is
\* consulted; so the request of a non-superuser whose usage_count has
\* reached quota still makes exactly one provider call, and only then is
\* turned away by the gate, with no record and no counter change.
C23_ProviderCallPrecedesGate ==
    [][(last'.op = "generate_content" /\ last'.provider \in KnownProviders)
          => /\ last'.ext = 1
             /\ last'.outcome \in {"ok", "unusable", "error"}
             /\ last'.denied
                   => /\ last'.ext = 1
                      /\ ledger' = ledger
                      /\ users' = users]_vars

\* A non-superuser at quota has made a provider call that succeeded.
C23_Witness ==
    /\ last.op = "generate_content"
    /\ last.provider \in KnownProviders
    /\ last.denied
    /\ ~users[last.user].is_superuser
    /\ last.ext = 1
    /\ last.outcome = "ok"

\* ------------------------------------------------------------------------
\* Properties of concurrent track calls
\* ------------------------------------------------------------------------
AllDone == \A p \in Procs : procs[p].pc = "done"

ReturnedTrue == {p \in Procs : procs[p].ret = "true"}

\* C24: the race exists (the witness below is the state it ends in), and it
\* is the only way past the ceiling.  When two concurrent successful track
\* calls of a non-superuser that started at usage_count = quota - 1 have
\* both returned true, each of them passed its quota check before the other
\* had incremented, i.e. both checks read quota - 1, and both records are in
\* the ledger.
C24_OvershootOnlyByRace ==
    (/\ AllDone
     /\ ReturnedTrue = Procs
     /\ ~users[RaceUser].is_superuser
     /\ \A p \in Procs : procs[p].start = users[RaceUser].quota - 1)
        => /\ \A p \in Procs :
                 procs[p].gate_saw = users[RaceUser].quota - 1
           /\ Len(RecordsOf(ledger, RaceUser)) = 2

\* Both calls returned true and both appended a record although the user
\* started with one unit of quota left.
C24_Witness ==
    /\ AllDone
    /\ ReturnedTrue = Procs
    /\ ~users[RaceUser].is_superuser
    /\ \A p \in Procs : procs[p].start = users[RaceUser].quota - 1
    /\ \A p \in Procs : procs[p].gate_saw = users[RaceUser].quota - 1
    /\ Len(RecordsOf(ledger, RaceUser)) = 2

\* Number of success = true records of the user in the ledger.
SuccessRecordsOf(u) ==
    Len(SelectSeq(RecordsOf(ledger, u), LAMBDA r : r.success))

\* C27: once all concurrent successful track calls of one user have
\* completed, the user's usage_count equals its value when the calls started
\* plus the number of calls that returned true, and also that value plus the
\* number of success = true records appended.
C27_NoLostIncrement ==
    AllDone
        => \A p \in Procs :
              /\ users[RaceUser].usage_count
                     = procs[p].start + Cardinality(ReturnedTrue)
              /\ users[RaceUser].usage_count
                     = procs[p].start + SuccessRecordsOf(RaceUser)

\* ------------------------------------------------------------------------
\* Properties of the image path and of request validation
\* ------------------------------------------------------------------------
\* C25: an image generation for a non-superuser whose usage_count has
\* reached quota, or for an id without a user row, raises before any DALL-E
\* call is made, appends no record and changes no usage_count; through the
\* route, with a prompt, the caller gets status 400 with the ValueError's
\* text.
C25_ImageQuotaBeforeCall ==
    [][(last'.op \in {"generate_image", "image_client"} /\ last'.denied)
          => /\ last'.ext = 0
             /\ ledger' = ledger
             /\ users' = users
             /\ last'.op = "image_client"
                   => /\ last'.ret = "raise"
                      /\ last'.detail \in {"User not found",
                                           "User quota exceeded"}
             /\ last'.op = "generate_image"
                   => /\ last'.status # 200
                      /\ ~last'.bad_request
                            => /\ last'.status = 400
                               /\ last'.detail = "User quota exceeded"]_vars

\* An image request of a non-superuser at quota was turned away with 400
\* while the ledger already held a record.
C25_Witness ==
    /\ last.op = "generate_image"
    /\ last.denied
    /\ ~last.bad_request
    /\ last.status = 400
    /\ last.ext = 0
    /\ Len(ledger) >= 1

C28_ReturnedNumbersEqualRecord ==
    [][(last'.op = "generate_content" /\ last'.status = 200)
          => /\ AppendedFor(last'.user, 1)
             /\ ledger'[Len(ledger')].total_tokens = last'.tokens_used
             /\ ledger'[Len(ledger')].cost_usd = last'.cost_usd]_vars

\* C29: every record of the ledger, written for a text request of any of
\* the three providers or by the image client, has total_tokens =
\* prompt_tokens + completion_tokens, and none of the three is negative.
C29_TotalIsPromptPlusCompletion ==
    \A i \in 1..Len(ledger) :
        /\ ledger[i].total_tokens
               = ledger[i].prompt_tokens + ledger[i].completion_tokens
        /\ ledger[i].prompt_tokens >= 0
        /\ ledger[i].completion_tokens >= 0
        /\ ledger[i].total_tokens >= 0

\* The ledger holds a Gemini record with estimated token counts and an
\* image record.
C29_Witness ==
    /\ \E i \in 1..Len(ledger) :
          /\ ledger[i].provider = "gemini"
          /\ ledger[i].prompt_tokens = 37
          /\ ledger[i].total_tokens = 74
    /\ \E i \in 1..Len(ledger) :
          /\ ledger[i].request_type = "image_generation"
          /\ ledger[i].total_tokens = 0

\* C30: a generate-content request naming a provider other than openai,
\* anthropic and gemini, and a generate-image request without a prompt, get
\* status 400, make no external call, append no record and change no
\* usage_count.
C30_BadRequestIs400 ==
    [][(IsLLMRequest(last') /\ last'.bad_request)
          => /\ last'.status = 400
             /\ last'.ext = 0
             /\ ledger' = ledger
             /\ users' = users]_vars

====
